---- MODULE Spec2Model ----
(***************************************************************************)
(* Model of app.py: a Dash page with one dropdown ('generation-dropdown'), *)
(* one graph ('type-counts') and one callback, update_type_counts, that    *)
(* reads the table pokemon through the module-level sqlite3 connection.    *)
(*                                                                         *)
(* Python values are records [py, n, s]; SQL text is a sequence of tokens; *)
(* the table pokemon is a bag of (generation, type1) rows.                 *)
(***************************************************************************)
EXTENDS Integers, FiniteSets, Sequences, TLC

VARIABLES
    store,      \* table pokemon: bag of rows, [RowVals -> Nat]
    globals,    \* names bound in the module namespace of app.py
    conn,       \* the module-level connection: [open, opened]
    value,      \* property 'value' of generation-dropdown
    figure,     \* property 'figure' of type-counts
    requests    \* callback invocations, in order of dispatch

vars == <<store, globals, conn, value, figure, requests>>

-----------------------------------------------------------------------------
\* Bounds of the model.

\* largest number of rows of the table pokemon
MaxRows == 3

\* largest number of callback invocations in one behaviour
MaxCalls == 2

-----------------------------------------------------------------------------
\* Python values.

IntVal(k) == [py |-> "int", n |-> k, s |-> ""]

StrVal(t) == [py |-> "str", n |-> 0, s |-> t]

NoneVal == [py |-> "NoneType", n |-> 0, s |-> ""]

\* the number of options of the dropdown, values 1..NumOptions
NumOptions == 8

\* options=[{'label': 'Generation k', 'value': k}]
Options == {IntVal(k) : k \in 1..NumOptions}

\* value=1
DefaultValue == IntVal(1)

\* figure={}
EmptyFigure ==
    [set |-> FALSE,
     bars |-> {},
     title |-> [text |-> "", generation |-> <<>>],
     xaxis_title |-> "",
     yaxis_title |-> ""]

\* Names bound at module level once app.py has been imported: the five
\* imports, conn, app and the decorated function.  There is no binding of pd.
ModuleGlobals ==
    {"sqlite3", "dash", "dcc", "html", "px", "conn", "app", "update_type_counts"}

-----------------------------------------------------------------------------
\* The table pokemon.

Types == {"Grass", "Fire"}

StoredGenerations == {1, 2}

RowVals == [generation : StoredGenerations, type1 : Types]

RECURSIVE BagSum(_, _)
BagSum(b, S) ==
    IF S = {} THEN 0
    ELSE LET x == CHOOSE y \in S : TRUE IN b[x] + BagSum(b, S \ {x})

Stores == {b \in [RowVals -> 0..MaxRows] : BagSum(b, RowVals) <= MaxRows}

-----------------------------------------------------------------------------
\* SQL text as tokens.

IntTok(k) == [t |-> "int", n |-> k, s |-> ""]

IdTok(x) == [t |-> "id", n |-> 0, s |-> x]

KwTok(x) == [t |-> "kw", n |-> 0, s |-> x]

OpTok(x) == [t |-> "op", n |-> 0, s |-> x]

\* The SQL tokens of the text of a Python string.
Lex(t) ==
    CASE t = "1 OR 1=1" -> <<IntTok(1), KwTok("OR"), IntTok(1), OpTok("="), IntTok(1)>>
      [] t = "abc" -> <<IdTok("abc")>>
      [] t = "" -> <<>>
      [] OTHER -> <<IdTok(t)>>

\* {generation} inside an f-string: the tokens of str(generation).
Interpolate(v) ==
    CASE v.py = "int" -> <<IntTok(v.n)>>
      [] v.py = "NoneType" -> <<IdTok("None")>>
      [] OTHER -> Lex(v.s)

\* The statement of update_type_counts; only the WHERE clause varies.
Query(generation) ==
    [select |-> <<"type1", "COUNT(*)">>,
     from |-> "pokemon",
     where |-> <<IdTok("generation"), OpTok("=")>> \o Interpolate(generation),
     groupby |-> "type1"]

NoQuery == [select |-> <<>>, from |-> "", where |-> <<>>, groupby |-> ""]

Columns == {"generation", "type1"}

IsOperand(tok) == tok.t \in {"int", "id"}

\* operand = operand at positions k..k+2 of w
IsComparison(w, k) ==
    /\ IsOperand(w[k])
    /\ w[k + 1] = OpTok("=")
    /\ IsOperand(w[k + 2])

\* The WHERE clauses the grammar accepts: cmp, or cmp OR cmp.
Syntax(w) ==
    \/ Len(w) = 3 /\ IsComparison(w, 1)
    \/ Len(w) = 7 /\ IsComparison(w, 1) /\ w[4] = KwTok("OR") /\ IsComparison(w, 5)

\* "" when the statement prepares, else the error of sqlite.
QueryError(w) ==
    IF ~Syntax(w) THEN "syntax error"
    ELSE IF \E k \in 1..Len(w) : w[k].t = "id" /\ w[k].s \notin Columns
         THEN "no such column"
         ELSE ""

\* The value of an operand on a row.
Operand(tok, row) ==
    IF tok.t = "int" THEN IntVal(tok.n)
    ELSE IF tok.s = "generation" THEN IntVal(row.generation)
    ELSE StrVal(row.type1)

Comparison(w, k, row) == Operand(w[k], row) = Operand(w[k + 2], row)

\* Does the row satisfy the WHERE clause w (a clause that prepares)?
Matches(w, row) ==
    \/ Comparison(w, 1, row)
    \/ Len(w) = 7 /\ Comparison(w, 5, row)

\* The rows of the bag that satisfy w.
Selected(rows, w) == {r \in RowVals : rows[r] > 0 /\ Matches(w, r)}

\* COUNT(*) of the group of type1 = t
GroupCount(rows, w, t) ==
    BagSum(rows, {r \in Selected(rows, w) : r.type1 = t})

\* SELECT type1, COUNT(*) AS count ... GROUP BY type1: one row per group,
\* in no particular order.
GroupBy(rows, w) ==
    {[type1 |-> t, count |-> GroupCount(rows, w, t)] :
        t \in {r.type1 : r \in Selected(rows, w)}}

-----------------------------------------------------------------------------
\* The body of update_type_counts.

NoOutcome == [kind |-> "none", exc |-> "", fig |-> EmptyFigure]

Raise(e) == [kind |-> "raise", exc |-> e, fig |-> EmptyFigure]

Return(f) == [kind |-> "return", exc |-> "", fig |-> f]

\* px.bar(df, x='type1', y='count') followed by fig.update_layout(...)
Chart(df, generation) ==
    [set |-> TRUE,
     bars |-> df,
     title |-> [text |-> "Distribution of Pokémon Types in Generation ",
                generation |-> Interpolate(generation)],
     xaxis_title |-> "Type",
     yaxis_title |-> "Count"]

\* pd.read_sql_query(query, conn): the evaluation of the name pd, then the
\* query on the connection.  [out, queries]: the DataFrame or the exception,
\* and the number of statements sent to the connection.
read_sql_query(glob, rows, query) ==
    IF "pd" \notin glob
    THEN [out |-> Raise("NameError"), df |-> {}, queries |-> 0]
    ELSE IF QueryError(query.where) # ""
         THEN [out |-> Raise("DatabaseError"), df |-> {}, queries |-> 1]
         ELSE [out |-> NoOutcome, df |-> GroupBy(rows, query.where), queries |-> 1]

\* update_type_counts with an except clause that imports pandas into the
\* module namespace before the NameError goes on to the caller.
update_type_counts_lazy_import(glob, rows, generation, query) ==
    LET read == read_sql_query(glob, rows, query) IN
    [out |-> IF read.out.kind = "raise" THEN read.out
             ELSE Return(Chart(read.df, generation)),
     queries |-> read.queries,
     globals |-> IF read.out = Raise("NameError") THEN glob \cup {"pd"} ELSE glob,
     store |-> rows]

\* update_type_counts with a statement that empties the table before the read.
update_type_counts_delete(glob, rows, generation, query) ==
    LET read == read_sql_query(glob, rows, query) IN
    [out |-> IF read.out.kind = "raise" THEN read.out
             ELSE Return(Chart(read.df, generation)),
     queries |-> read.queries,
     globals |-> glob,
     store |-> [r \in RowVals |-> 0]]

\* Lines 48 to 55 of update_type_counts, run in the module namespace glob on
\* the table rows: the outcome, the statements sent, and the namespace and
\* the table the body leaves behind.
update_type_counts(glob, rows, generation, query) ==
    LET read == read_sql_query(glob, rows, query) IN
    [out |-> IF read.out.kind = "raise" THEN read.out
             ELSE Return(Chart(read.df, generation)),
     queries |-> read.queries,
     globals |-> glob,
     store |-> rows]

-----------------------------------------------------------------------------
\* The page, the server and the callback invocations.

\* Values that a client other than the page's dropdown posts to the callback
\* endpoint: another page's default, and text.
PostedInputs == {IntVal(1), StrVal("1 OR 1=1"), StrVal("abc")}

Request(v, o) ==
    [arg |-> v, origin |-> o, pc |-> "line42", query |-> NoQuery,
     queries |-> 0, out |-> NoOutcome]

Init ==
    /\ store \in Stores
    /\ globals = ModuleGlobals
    /\ conn = [open |-> TRUE, opened |-> 1]
    /\ value = DefaultValue
    /\ figure = EmptyFigure
    /\ requests = <<Request(DefaultValue, "page")>>

\* The user picks another option: the property changes and the callback is
\* dispatched with the new value.
SelectGeneration(v) ==
    /\ Len(requests) < MaxCalls
    /\ v \in Options
    /\ v # value
    /\ value' = v
    /\ requests' = Append(requests, Request(v, "page"))
    /\ UNCHANGED <<store, globals, conn, figure>>

\* The user clears the selection: the dropdown is clearable unless
\* clearable=False is given, and the cleared value is None.
ClearSelection ==
    /\ Len(requests) < MaxCalls
    /\ value # NoneVal
    /\ value' = NoneVal
    /\ requests' = Append(requests, Request(NoneVal, "page"))
    /\ UNCHANGED <<store, globals, conn, figure>>

\* Another client posts an input to the callback endpoint.
Post(v) ==
    /\ Len(requests) < MaxCalls
    /\ v \in PostedInputs
    /\ requests' = Append(requests, Request(v, "other"))
    /\ UNCHANGED <<store, globals, conn, value, figure>>

\* Lines 42 to 47: the f-string.
Line42(i) ==
    /\ i \in 1..Len(requests)
    /\ requests[i].pc = "line42"
    /\ requests' = [requests EXCEPT ![i].pc = "line48",
                                    ![i].query = Query(requests[i].arg)]
    /\ UNCHANGED <<store, globals, conn, value, figure>>

\* Lines 48 to 55: the read, the chart and the return, or the exception.
Line48(i) ==
    /\ i \in 1..Len(requests)
    /\ requests[i].pc = "line48"
    /\ LET r == requests[i]
           res == update_type_counts(globals, store, r.arg, r.query)
       IN /\ requests' = [requests EXCEPT
                 ![i].pc = IF res.out.kind = "raise" THEN "raised" ELSE "returned",
                 ![i].out = res.out,
                 ![i].queries = r.queries + res.queries]
          /\ globals' = res.globals
          /\ store' = res.store
    /\ UNCHANGED <<conn, value, figure>>

\* the page's invocation that no later invocation of the page supersedes
IsLatestOfPage(i) ==
    /\ requests[i].origin = "page"
    /\ \A j \in 1..Len(requests) : requests[j].origin = "page" => j <= i

\* The framework answers the request: a returned figure of the page's latest
\* request becomes the property 'figure' of type-counts (the renderer drops
\* the answer to a superseded request); an exception is reported and leaves
\* the property as it is.
Respond(i) ==
    /\ i \in 1..Len(requests)
    /\ requests[i].pc \in {"returned", "raised"}
    /\ requests' = [requests EXCEPT ![i].pc = "done"]
    /\ figure' = IF requests[i].out.kind = "return" /\ IsLatestOfPage(i)
                 THEN requests[i].out.fig
                 ELSE figure
    /\ UNCHANGED <<store, globals, conn, value>>

Next ==
    \/ \E v \in Options : SelectGeneration(v)
    \/ ClearSelection
    \/ \E v \in PostedInputs : Post(v)
    \/ \E i \in 1..MaxCalls : Line42(i)
    \/ \E i \in 1..MaxCalls : Line48(i)
    \/ \E i \in 1..MaxCalls : Respond(i)

Spec == Init /\ [][Next]_vars

-----------------------------------------------------------------------------
\* Vocabulary of the properties.

\* the invocation has run to its return or to its exception
Completed(i) == requests[i].pc \in {"returned", "raised", "done"}

IsInt(v) == v.py = "int"

\* the stored records of generation g
RecordsOf(g) == {r \in RowVals : store[r] > 0 /\ r.generation = g}

NumRecordsOf(g) == BagSum(store, RecordsOf(g))

RECURSIVE SumCounts(_)
SumCounts(bars) ==
    IF bars = {} THEN 0
    ELSE LET b == CHOOSE x \in bars : TRUE IN b.count + SumCounts(bars \ {b})

\* the type counts of generation g, computed from the records
TypeCounts(g) ==
    {[type1 |-> t, count |-> BagSum(store, {r \in RecordsOf(g) : r.type1 = t})] :
        t \in {r.type1 : r \in RecordsOf(g)}}

\* the chart of generation g
ChartOf(g) ==
    [set |-> TRUE,
     bars |-> TypeCounts(g),
     title |-> [text |-> "Distribution of Pokémon Types in Generation ",
                generation |-> <<IntTok(g)>>],
     xaxis_title |-> "Type",
     yaxis_title |-> "Count"]

-----------------------------------------------------------------------------
\* C1: for a generation g with at least one stored record, the counts that
\* update_type_counts(g) returns sum to the number of stored records of
\* generation g.
C1_CountsSumToRecords ==
    \A i \in 1..Len(requests) :
        (Completed(i) /\ IsInt(requests[i].arg)
            /\ NumRecordsOf(requests[i].arg.n) >= 1)
        => /\ requests[i].out.kind = "return"
           /\ SumCounts(requests[i].out.fig.bars) = NumRecordsOf(requests[i].arg.n)

\* C2: the categories of the result of update_type_counts(g) are exactly the
\* type1 values of the records of generation g, each one once.
C2_CategoriesAreTypesOfGeneration ==
    \A i \in 1..Len(requests) :
        (Completed(i) /\ IsInt(requests[i].arg))
        => LET bars == requests[i].out.fig.bars
               types == {r.type1 : r \in RecordsOf(requests[i].arg.n)}
           IN /\ requests[i].out.kind = "return"
              /\ {b.type1 : b \in bars} = types
              /\ Cardinality(bars) = Cardinality(types)

\* C3: for a generation in 1..8 an invocation sends exactly one query to the
\* store and then returns a chart: it does not end before the query is sent
\* and never sends more than one.
C3_OneQueryThenChart ==
    \A i \in 1..Len(requests) :
        requests[i].arg \in Options
        => /\ requests[i].queries <= 1
           /\ Completed(i) => /\ requests[i].queries = 1
                              /\ requests[i].out.kind = "return"
                              /\ requests[i].out.fig.set

\* C4: for a generation g without stored records update_type_counts(g)
\* raises nothing and returns a chart without bars, titled
\* 'Distribution of Pokémon Types in Generation g'.
C4_EmptyGenerationGivesEmptyChart ==
    \A i \in 1..Len(requests) :
        (Completed(i) /\ IsInt(requests[i].arg)
            /\ NumRecordsOf(requests[i].arg.n) = 0)
        => /\ requests[i].out.kind = "return"
           /\ requests[i].out.fig.bars = {}
           /\ requests[i].out.fig.title = ChartOf(requests[i].arg.n).title

C6_StoreUnchanged == [][store' = store]_vars

\* an invocation has run to its end on a store that holds records
C6_Witness ==
    /\ \E i \in 1..Len(requests) : requests[i].pc = "done"
    /\ BagSum(store, RowVals) >= 1

\* C7: the value the page hands to the callback is always one of the option
\* values 1..8, also after the selection is cleared.
C7_PageValueIsAnOption ==
    /\ value \in Options
    /\ \A i \in 1..Len(requests) :
           requests[i].origin = "page" => requests[i].arg \in Options

\* C8: the last invocation dispatched by the page carries the dropdown's
\* value, and once every invocation of the page is answered, type-counts
\* shows the chart of the selected generation.
C8_ChartFollowsSelection ==
    LET page == {i \in 1..Len(requests) : requests[i].origin = "page"}
        last == CHOOSE i \in page : \A j \in page : j <= i
    IN /\ requests[last].arg = value
       /\ ((\A i \in page : requests[i].pc = "done") /\ IsInt(value))
          => figure = ChartOf(value.n)

\* C9: for an input that is no integer, either the query fails when it is
\* run and the failure leaves update_type_counts as raised (no chart, store
\* as before), or the query runs with a predicate other than
\* generation = input and returns rows that this filter would not.
C9_MalformedQueryFailsOrInjects ==
    \A i \in 1..Len(requests) :
        (Completed(i) /\ ~IsInt(requests[i].arg))
        => \/ /\ requests[i].queries = 1
              /\ requests[i].out = Raise("DatabaseError")
           \/ /\ requests[i].queries = 1
              /\ requests[i].out.kind = "return"
              /\ Len(requests[i].query.where) # 3
              /\ BagSum(store, RowVals) >= 1 => requests[i].out.fig.bars # {}

\* C10: the connection is opened once and stays open, and every invocation,
\* however the invocations interleave, completes by returning the type
\* counts of its own generation.
C10_SharedConnectionServesEveryInvocation ==
    /\ conn.open
    /\ conn.opened = 1
    /\ \A i \in 1..Len(requests) :
           (Completed(i) /\ IsInt(requests[i].arg))
           => requests[i].out = Return(ChartOf(requests[i].arg.n))

====
